---- MODULE Spec2Model ----
(***************************************************************************)
(* State-machine model of the status-refresh core of homebridge-switchbot: *)
(* the per-device refresh cycle (deviceBase, IOSensor, Motion), its radio  *)
(* scan and cloud fetch, the decoders and the publish pass.                *)
(*                                                                         *)
(* One accessory is modelled.  Its class (IOSensor or Motion) and its      *)
(* configuration are fixed by the constructor and chosen in Init.  Code    *)
(* between two suspension points on I/O (connectBLE, startScan, wait,      *)
(* stopScan, retryRequest) runs to completion as one action: the awaits on *)
(* the class's own async methods resume in the microtask queue, before any *)
(* timer or I/O callback.                                                  *)
(***************************************************************************)
EXTENDS Integers, Sequences, FiniteSets, TLC

(***************************************************************************)
(* JavaScript values.  Every value is a record of the same shape, so that  *)
(* values of different JavaScript types can be compared.                   *)
(***************************************************************************)
Undef == [t |-> "undefined", n |-> 0, s |-> ""]
NaN == [t |-> "number", n |-> 0, s |-> "NaN"]
ErrObj == [t |-> "object", n |-> 0, s |-> "Error"]
Num(x) == [t |-> "number", n |-> x, s |-> ""]
Str(x) == [t |-> "string", n |-> 0, s |-> x]
Bool(b) == [t |-> "boolean", n |-> IF b THEN 1 ELSE 0, s |-> ""]

IsNum(a) == a.t = "number" /\ a.s = ""

\* a < k and a > k of JavaScript for a number k: false when a is undefined (NaN)
JsLt(a, k) == IsNum(a) /\ a.n < k
JsGt(a, k) == IsNum(a) /\ a.n > k

\* property access: a key the object does not have reads as undefined
Get(obj, key) == IF key \in DOMAIN obj THEN obj[key] ELSE Undef

\* the object with exactly the fields of rec whose value is defined
Obj(rec) == [k \in {f \in DOMAIN rec : rec[f] # Undef} |-> rec[k]]

(***************************************************************************)
(* Bounds of the model.                                                    *)
(***************************************************************************)
\* refresh cycles of the accessory that can be in flight at the same time,
\* when the refresh interval is shorter than a cycle
MaxCycles == 2

Cycles == 1..MaxCycles

(***************************************************************************)
(* Configuration (device & devicesConfig, platform.config).                *)
(***************************************************************************)
Kinds == {"IOSensor", "Motion"}
ConnectionTypes == {"BLE", "OpenAPI", "BLE/OpenAPI", "Disabled"}

\* StatusLowBattery.BATTERY_LEVEL_NORMAL / BATTERY_LEVEL_LOW of HAP
BATTERY_LEVEL_NORMAL == Num(0)
BATTERY_LEVEL_LOW == Num(1)

\* deviceBase.getDeviceContext: the BLE model and model name of a deviceType
deviceMapping(deviceType) ==
  CASE deviceType = "WoIOSensor" -> [bleModel |-> Str("OutdoorMeter"), bleModelName |-> Str("OutdoorMeter")]
    [] deviceType = "Motion Sensor" -> [bleModel |-> Str("MotionSensor"), bleModelName |-> Str("MotionSensor")]
    [] OTHER -> [bleModel |-> Str("Unknown"), bleModelName |-> Str("Unknown")]

\* the model and model name a class compares a scan result with
ClassModel(kind) ==
  IF kind = "IOSensor"
    THEN [model |-> Str("OutdoorMeter"), modelName |-> Str("OutdoorMeter")]
    ELSE [model |-> Str("MotionSensor"), modelName |-> Str("MotionSensor")]

DeviceTypeOf(kind) == IF kind = "IOSensor" THEN "WoIOSensor" ELSE "Motion Sensor"

\* deviceBase.constructor: the transports of a connection type
BLEOf(connectionType) == connectionType = "BLE" \/ connectionType = "BLE/OpenAPI"
OpenAPIOf(connectionType) == connectionType = "OpenAPI" \/ connectionType = "BLE/OpenAPI"


(***************************************************************************)
(* Capabilities (HomeKit characteristics) of the two classes.              *)
(***************************************************************************)
KindCaps(kind) ==
  IF kind = "IOSensor"
    THEN {"BatteryLevel", "StatusLowBattery", "CurrentRelativeHumidity", "CurrentTemperature"}
    ELSE {"MotionDetected", "BatteryLevel", "StatusLowBattery", "CurrentAmbientLightLevel"}

AllCaps == KindCaps("IOSensor") \cup KindCaps("Motion")

\* IOSensor.constructor: this.HumiditySensor / this.TemperatureSensor exist
\* unless hidden; Motion.constructor: this.LightSensor exists unless hidden
HasHumiditySensor(d) == ~d.hide_humidity
HasTemperatureSensor(d) == ~d.hide_temperature
HasLightSensor(d) == ~d.hide_lightsensor

\* CurrentAmbientLightLevel of a new Motion accessory (not a whole number)
DefaultLux == [t |-> "number", n |-> 0, s |-> "0.0001"]
DefaultBattery == 100
DefaultHumidity == 50
DefaultTemperature == 30
DefaultMinLux == 1
DefaultMaxLux == 6001
LowBatteryBelow == 10
LightLevels == 2

\* the in-memory capability values the constructors set for a new accessory
\* (accessory.context empty); a hidden service has no object, its value
\* reads as undefined
InitialValues(d) ==
  [c \in KindCaps(d.kind) |->
    CASE c = "BatteryLevel" -> Num(DefaultBattery)
      [] c = "StatusLowBattery" -> BATTERY_LEVEL_NORMAL
      [] c = "CurrentRelativeHumidity" -> IF HasHumiditySensor(d) THEN Num(DefaultHumidity) ELSE Undef
      [] c = "CurrentTemperature" -> IF HasTemperatureSensor(d) THEN Num(DefaultTemperature) ELSE Undef
      [] c = "MotionDetected" -> Bool(FALSE)
      [] c = "CurrentAmbientLightLevel" -> IF HasLightSensor(d) THEN DefaultLux ELSE Undef]

(***************************************************************************)
(* Helpers of utils.js and deviceBase.                                     *)
(***************************************************************************)
\* utils.validHumidity: the humidity clamped into [min, max]
validHumidity(h, min, max) ==
  IF ~IsNum(h) THEN NaN
  ELSE IF h.n < min THEN Num(min) ELSE IF h.n > max THEN Num(max) ELSE h

\* utils.convertUnits: a temperature converted from its scale to the unit asked for
convertUnits(value, unit, convertTo) ==
  IF ~IsNum(value) THEN value
  ELSE IF unit = Str("CELSIUS") /\ convertTo = Str("FAHRENHEIT") THEN Num((value.n * 9) \div 5 + 32)
  ELSE IF unit = Str("FAHRENHEIT") /\ convertTo = Str("CELSIUS") THEN Num(((value.n - 32) * 5) \div 9)
  ELSE value

\* deviceBase.getLightLevel (the configurations of the model keep the division exact)
getLightLevel(lightLevel, set_minLux, set_maxLux, spaceBetweenLevels) ==
  LET numberOfLevels == spaceBetweenLevels + 1
  IN IF lightLevel = 1 THEN set_minLux
     ELSE IF lightLevel = numberOfLevels THEN set_maxLux
     ELSE ((set_maxLux - set_minLux) \div spaceBetweenLevels) * (lightLevel - 1)

\* x ?? y
Coalesce(x, y) == IF x = Undef THEN y ELSE x

\* the StatusLowBattery derived from a battery level (BatteryLevel < 10 ? LOW : NORMAL)
\* a status whose comparison is turned around
LowBatteryOf_Above(level) ==
  IF JsGt(level, LowBatteryBelow) THEN BATTERY_LEVEL_LOW ELSE BATTERY_LEVEL_NORMAL

LowBatteryOf(level) ==
  IF JsLt(level, LowBatteryBelow) THEN BATTERY_LEVEL_LOW ELSE BATTERY_LEVEL_NORMAL

(***************************************************************************)
(* Status decoders.  d is the device configuration, m the in-memory        *)
(* capability values, the last argument the payload stored by the caller   *)
(* (this.serviceData, this.deviceStatus, this.webhookContext).             *)
(***************************************************************************)
\* a radio decoder that leaves the battery out
IOSensor_BLEparseStatus_NoBattery(d, m, serviceData) ==
  LET m2 == IF ~d.hide_humidity /\ HasHumiditySensor(d)
              THEN [m EXCEPT !["CurrentRelativeHumidity"] = validHumidity(Get(serviceData, "humidity"), 0, 100)]
              ELSE m
      celsius == Get(serviceData, "celsius")
      CELSIUS == IF JsLt(celsius, 0) THEN Num(0) ELSE IF JsGt(celsius, 100) THEN Num(100) ELSE celsius
  IN IF ~d.hide_temperature /\ HasTemperatureSensor(d)
       THEN [m2 EXCEPT !["CurrentTemperature"] = CELSIUS]
       ELSE m2

IOSensor_BLEparseStatus(d, m, serviceData) ==
  LET m1 == IF "battery" \in DOMAIN serviceData
              THEN [m EXCEPT !["BatteryLevel"] = serviceData["battery"],
                             !["StatusLowBattery"] = LowBatteryOf(serviceData["battery"])]
              ELSE m
      m2 == IF ~d.hide_humidity /\ HasHumiditySensor(d)
              THEN [m1 EXCEPT !["CurrentRelativeHumidity"] = validHumidity(Get(serviceData, "humidity"), 0, 100)]
              ELSE m1
      celsius == Get(serviceData, "celsius")
      CELSIUS == IF JsLt(celsius, 0) THEN Num(0) ELSE IF JsGt(celsius, 100) THEN Num(100) ELSE celsius
  IN IF ~d.hide_temperature /\ HasTemperatureSensor(d)
       THEN [m2 EXCEPT !["CurrentTemperature"] = CELSIUS]
       ELSE m2

\* (the firmware version of the response goes to AccessoryInformation and to
\* accessory.context.version, which is no capability: not modelled)
IOSensor_openAPIparseStatus(d, m, deviceStatus) ==
  LET m1 == [m EXCEPT !["BatteryLevel"] = Get(deviceStatus, "battery"),
                      !["StatusLowBattery"] = LowBatteryOf(Get(deviceStatus, "battery"))]
      m2 == IF ~d.hide_humidity /\ HasHumiditySensor(d)
              THEN [m1 EXCEPT !["CurrentRelativeHumidity"] = Get(deviceStatus, "humidity")]
              ELSE m1
  IN IF ~d.hide_temperature /\ HasTemperatureSensor(d)
       THEN [m2 EXCEPT !["CurrentTemperature"] = Get(deviceStatus, "temperature")]
       ELSE m2

IOSensor_parseStatusWebhook(d, m, webhookContext) ==
  LET m1 == IF d.hide_humidity /\ HasHumiditySensor(d)
              THEN [m EXCEPT !["CurrentRelativeHumidity"] = Get(webhookContext, "humidity")]
              ELSE m
  IN IF d.hide_temperature /\ HasTemperatureSensor(d)
       THEN [m1 EXCEPT !["CurrentTemperature"] =
               convertUnits(Get(webhookContext, "temperature"), Get(webhookContext, "scale"), d.convertUnitTo)]
       ELSE m1

\* the lux value both Motion decoders store for a reported light level
MotionLux(d, reported) ==
  LET set_minLux == Coalesce(d.set_minLux, Num(DefaultMinLux)).n
      set_maxLux == Coalesce(d.set_maxLux, Num(DefaultMaxLux)).n
      lightLevel == IF reported = Str("bright") THEN set_maxLux ELSE set_minLux
  IN Num(getLightLevel(lightLevel, set_minLux, set_maxLux, LightLevels))

Motion_BLEparseStatus(d, m, serviceData) ==
  LET m1 == [m EXCEPT !["MotionDetected"] = Get(serviceData, "movement")]
      m2 == IF ~d.hide_lightsensor /\ HasLightSensor(d)
              THEN [m1 EXCEPT !["CurrentAmbientLightLevel"] = MotionLux(d, Get(serviceData, "lightLevel"))]
              ELSE m1
  IN IF "battery" \in DOMAIN serviceData
       THEN [m2 EXCEPT !["BatteryLevel"] = serviceData["battery"],
                       !["StatusLowBattery"] = LowBatteryOf(serviceData["battery"])]
       ELSE m2

Motion_openAPIparseStatus(d, m, deviceStatus) ==
  LET m1 == [m EXCEPT !["MotionDetected"] = Get(deviceStatus, "moveDetected")]
      m2 == IF ~d.hide_lightsensor /\ HasLightSensor(d)
              THEN [m1 EXCEPT !["CurrentAmbientLightLevel"] = MotionLux(d, Get(deviceStatus, "brightness"))]
              ELSE m1
  IN [m2 EXCEPT !["BatteryLevel"] = Get(deviceStatus, "battery"),
                !["StatusLowBattery"] = LowBatteryOf(Get(deviceStatus, "battery"))]

Motion_parseStatusWebhook(d, m, webhookContext) ==
  [m EXCEPT !["MotionDetected"] = Bool(Get(webhookContext, "detectionState") = Str("DETECTED"))]

\* the decoder of the device's class
BLEparseStatus(d, m, serviceData) ==
  IF d.kind = "IOSensor" THEN IOSensor_BLEparseStatus(d, m, serviceData)
  ELSE Motion_BLEparseStatus(d, m, serviceData)

openAPIparseStatus(d, m, deviceStatus) ==
  IF d.kind = "IOSensor" THEN IOSensor_openAPIparseStatus(d, m, deviceStatus)
  ELSE Motion_openAPIparseStatus(d, m, deviceStatus)

\* a decoder that takes a DETECTED event for a change of the motion state
parseStatusWebhook_Toggle(d, m, webhookContext) ==
  IF d.kind = "IOSensor" THEN IOSensor_parseStatusWebhook(d, m, webhookContext)
  ELSE [m EXCEPT !["MotionDetected"] =
          Bool(Get(webhookContext, "detectionState") = Str("DETECTED") /\ @ # Bool(TRUE))]

parseStatusWebhook(d, m, webhookContext) ==
  IF d.kind = "IOSensor" THEN IOSensor_parseStatusWebhook(d, m, webhookContext)
  ELSE Motion_parseStatusWebhook(d, m, webhookContext)


(***************************************************************************)
(* Publishing to the host.  A pass is a sequence of calls; st is the       *)
(* state it threads through:                                               *)
(*   host      the value HomeKit was last told, per characteristic         *)
(*   context   accessory.context[CharacteristicName]                       *)
(*   calls     Service.updateCharacteristic invocations so far             *)
(*   n         those that succeeded                                        *)
(*   failed    the characteristic whose invocation threw ("": none)        *)
(*   ok        FALSE while an exception propagates                         *)
(* failAt is the invocation of the handler run that throws (0: none).      *)
(***************************************************************************)
\* Service.updateCharacteristic(Characteristic, value), called directly
ServiceUpdate(st, cap, value, failAt) ==
  IF ~st.ok THEN st
  ELSE IF st.calls + 1 = failAt THEN [st EXCEPT !.calls = @ + 1, !.failed = cap, !.ok = FALSE]
  ELSE [st EXCEPT !.calls = @ + 1, !.n = @ + 1, !.host = [@ EXCEPT ![cap] = value]]

\* a publish that also skips a value equal to the last published one
updateCharacteristic_Diff(st, cap, value, failAt) ==
  IF ~st.ok \/ value = Undef \/ value = st.context[cap] THEN st
  ELSE LET s1 == ServiceUpdate(st, cap, value, failAt)
       IN IF s1.ok THEN [s1 EXCEPT !.context = [@ EXCEPT ![cap] = value]] ELSE s1

\* a publish that records the value before the host has accepted it
updateCharacteristic_Eager(st, cap, value, failAt) ==
  IF ~st.ok \/ value = Undef THEN st
  ELSE LET s1 == ServiceUpdate(st, cap, value, failAt)
       IN [s1 EXCEPT !.context = [@ EXCEPT ![cap] = value]]

\* a publish that tells the host and keeps no record in the context
updateCharacteristic_HostOnly(st, cap, value, failAt) ==
  IF ~st.ok \/ value = Undef THEN st
  ELSE ServiceUpdate(st, cap, value, failAt)

\* deviceBase.updateCharacteristic
updateCharacteristic(st, cap, value, failAt) ==
  IF ~st.ok \/ value = Undef THEN st
  ELSE LET s1 == ServiceUpdate(st, cap, value, failAt)
       IN IF s1.ok THEN [s1 EXCEPT !.context = [@ EXCEPT ![cap] = value]] ELSE s1

\* the characteristics a publish pass goes through, in its order
PublishOrder(d) ==
  IF d.kind = "IOSensor"
    THEN (IF ~d.hide_humidity /\ HasHumiditySensor(d) THEN <<"CurrentRelativeHumidity">> ELSE <<>>)
         \o (IF ~d.hide_temperature /\ HasTemperatureSensor(d) THEN <<"CurrentTemperature">> ELSE <<>>)
         \o <<"BatteryLevel", "StatusLowBattery">>
    ELSE <<"MotionDetected", "BatteryLevel", "StatusLowBattery">>
         \o (IF ~d.hide_lightsensor /\ HasLightSensor(d) THEN <<"CurrentAmbientLightLevel">> ELSE <<>>)

RECURSIVE PublishFrom(_, _, _, _, _)
PublishFrom(st, order, i, m, failAt) ==
  IF i > Len(order) THEN st
  ELSE PublishFrom(updateCharacteristic(st, order[i], m[order[i]], failAt), order, i + 1, m, failAt)

\* IOSensor / Motion.updateHomeKitCharacteristics
updateHomeKitCharacteristics(d, st, m, failAt) == PublishFrom(st, PublishOrder(d), 1, m, failAt)

RECURSIVE DirectFrom(_, _, _, _)
DirectFrom(st, ups, i, failAt) ==
  IF i > Len(ups) THEN st
  ELSE DirectFrom(ServiceUpdate(st, ups[i][1], ups[i][2], failAt), ups, i + 1, failAt)

\* an error handler that leaves the host alone
apiError_Silent(d, st, e, failAt) == st

\* an error handler that does not look at the hide flags
apiError_Unhidden(d, st, e, failAt) ==
  LET ups == IF d.kind = "IOSensor"
               THEN << <<"CurrentRelativeHumidity", e>>, <<"CurrentTemperature", e>>,
                       <<"BatteryLevel", e>>, <<"StatusLowBattery", e>> >>
               ELSE << <<"MotionDetected", e>>, <<"BatteryLevel", e>>, <<"StatusLowBattery", e>>,
                       <<"CurrentAmbientLightLevel", e>> >>
  IN DirectFrom(st, ups, 1, failAt)

\* IOSensor / Motion.apiError: every exposed characteristic is set to the error
apiError(d, st, e, failAt) ==
  LET ups == IF d.kind = "IOSensor"
               THEN (IF ~d.hide_humidity /\ HasHumiditySensor(d) THEN << <<"CurrentRelativeHumidity", e>> >> ELSE <<>>)
                    \o (IF ~d.hide_temperature /\ HasTemperatureSensor(d) THEN << <<"CurrentTemperature", e>> >> ELSE <<>>)
                    \o << <<"BatteryLevel", e>>, <<"StatusLowBattery", e>> >>
               ELSE << <<"MotionDetected", e>>, <<"BatteryLevel", e>>, <<"StatusLowBattery", e>> >>
                    \o (IF ~d.hide_lightsensor /\ HasLightSensor(d) THEN << <<"CurrentAmbientLightLevel", e>> >> ELSE <<>>)
  IN DirectFrom(st, ups, 1, failAt)

\* a fallback that publishes nothing
offlineOff_Never(d, st, failAt) == st

\* a fallback that does not ask whether the device is marked offline
offlineOff_Always(d, st, failAt) ==
  LET ups == IF d.kind = "IOSensor"
               THEN (IF ~d.hide_humidity /\ HasHumiditySensor(d) THEN << <<"CurrentRelativeHumidity", Num(50)>> >> ELSE <<>>)
                    \o (IF ~d.hide_temperature /\ HasTemperatureSensor(d) THEN << <<"CurrentTemperature", Num(30)>> >> ELSE <<>>)
               ELSE << <<"MotionDetected", Bool(FALSE)>> >>
  IN DirectFrom(st, ups, 1, failAt)

\* IOSensor / Motion.offlineOff
offlineOff(d, st, failAt) ==
  LET ups == IF ~d.offline THEN <<>>
             ELSE IF d.kind = "IOSensor"
               THEN (IF ~d.hide_humidity /\ HasHumiditySensor(d) THEN << <<"CurrentRelativeHumidity", Num(50)>> >> ELSE <<>>)
                    \o (IF ~d.hide_temperature /\ HasTemperatureSensor(d) THEN << <<"CurrentTemperature", Num(30)>> >> ELSE <<>>)
               ELSE << <<"MotionDetected", Bool(FALSE)>> >>
  IN DirectFrom(st, ups, 1, failAt)

\* the pass state at the start of a handler run
PassStart(h, ctx) ==
  [host |-> h, context |-> ctx, calls |-> 0, n |-> 0, failed |-> "", ok |-> TRUE]


(***************************************************************************)
(* The refresh cycle.  A cycle is one call of refreshStatus with the work  *)
(* it starts.  Its record:                                                 *)
(*   pc    the await it is suspended at                                    *)
(*   tr    the transports it has attempted, in order: "BLERefreshStatus"   *)
(*         (the radio is asked for), "startScan", "openAPIRefreshStatus"   *)
(*   sd    serviceData, the local of monitorAdvertisementPackets           *)
(*   seen  an advertisement has passed the filter of its scan              *)
(*   end   how it ended ("" while in flight)                               *)
(***************************************************************************)
NoData == [model |-> Undef]

Idle == [pc |-> "idle", tr |-> <<>>, sd |-> NoData, seen |-> FALSE, end |-> ""]

\* the ends of a cycle that are failures of its transports
FailureEnds == {"radioFailed", "cloudError", "cloudStatus"}

\* a cycle that stays where it failed
Ended_Stuck(cy, how) ==
  [cy EXCEPT !.pc = IF how \in FailureEnds THEN "failed" ELSE "done", !.end = how]

Ended(cy, how) == [cy EXCEPT !.pc = "done", !.end = how]

Count(tr, event) == Len(SelectSeq(tr, LAMBDA x : x = event))

\* IOSensor / Motion.openAPIRefreshStatus up to its await of deviceRefreshStatus
openAPIRefreshStatus(cy) ==
  [cy EXCEPT !.pc = "cloud", !.tr = Append(@, "openAPIRefreshStatus")]

\* a fallback that ignores the connection type
BLERefreshConnection_AnyType(d, cy) ==
  IF d.token THEN openAPIRefreshStatus(cy) ELSE Ended(cy, "radioFailed")

\* a fallback that ignores the missing token
BLERefreshConnection_NoToken(d, cy) ==
  IF d.connectionType = "BLE/OpenAPI" THEN openAPIRefreshStatus(cy) ELSE Ended(cy, "radioFailed")

\* IOSensor / Motion.BLERefreshConnection
BLERefreshConnection(d, cy) ==
  IF d.token /\ d.connectionType = "BLE/OpenAPI"
    THEN openAPIRefreshStatus(cy)
    ELSE Ended(cy, "radioFailed")

\* IOSensor / Motion.BLERefreshStatus up to its await of switchbotBLE
BLERefreshStatus(cy) ==
  [cy EXCEPT !.pc = "connectBLE", !.tr = Append(@, "BLERefreshStatus")]

\* a selection that tests the radio before enableCloudService
refreshStatus_RadioFirst(d, cy) ==
  IF BLEOf(d.connectionType) THEN BLERefreshStatus(cy)
  ELSE IF ~d.enableCloudService /\ OpenAPIOf(d.connectionType) THEN Ended(cy, "gate")
  ELSE IF OpenAPIOf(d.connectionType) /\ d.token THEN openAPIRefreshStatus(cy)
  ELSE Ended(cy, "offlineOff")

\* a selection that prefers the cloud to the radio
refreshStatus_CloudFirst(d, cy) ==
  IF ~d.enableCloudService /\ OpenAPIOf(d.connectionType) THEN Ended(cy, "gate")
  ELSE IF OpenAPIOf(d.connectionType) /\ d.token THEN openAPIRefreshStatus(cy)
  ELSE IF BLEOf(d.connectionType) THEN BLERefreshStatus(cy)
  ELSE Ended(cy, "offlineOff")

\* IOSensor / Motion.refreshStatus up to its first await on I/O
\* (the offlineOff branch ends here; its host updates are made by the caller)
refreshStatus(d, cy) ==
  IF ~d.enableCloudService /\ OpenAPIOf(d.connectionType) THEN Ended(cy, "gate")
  ELSE IF BLEOf(d.connectionType) THEN BLERefreshStatus(cy)
  ELSE IF OpenAPIOf(d.connectionType) /\ d.token THEN openAPIRefreshStatus(cy)
  ELSE Ended(cy, "offlineOff")

\* the ends of a cycle at which it logs an error (errorLog)
ErrorLogged(end) == end \in {"gate", "radioFailed", "cloudError"}

\* a status test that takes every response for a success
successfulStatusCodes_Any(statusCode) == TRUE

\* deviceBase.successfulStatusCodes
successfulStatusCodes(statusCode) == statusCode = 200 \/ statusCode = 100

\* the test BLERefreshStatus makes on the result of a scan
ScanAccepted(d, serviceData) ==
  /\ Get(serviceData, "model") = ClassModel(d.kind).model
  /\ Get(serviceData, "modelName") = ClassModel(d.kind).modelName

\* the filter of the onadvertisement handler of monitorAdvertisementPackets
AdPasses(d, ad) ==
  /\ ad.address = "own"
  /\ Get(ad.serviceData, "model") = deviceMapping(DeviceTypeOf(d.kind)).bleModel

\* the serviceData a scan starts with, and returns when no advertisement passes
ScanDefault(d) ==
  [model |-> deviceMapping(DeviceTypeOf(d.kind)).bleModel,
   modelName |-> deviceMapping(DeviceTypeOf(d.kind)).bleModelName]

(***************************************************************************)
(* The environment of a run and its inputs.  e is the environment:         *)
(*   slots     cycles that can overlap: 1 when the refresh interval is     *)
(*             longer than a cycle takes                                   *)
(*   partial   payloads may lack fields                                    *)
(*   hostFails a host update may throw                                     *)
(*   wild      payloads may carry values out of the sensor's range         *)
(***************************************************************************)
Drop(obj, key) == [k \in DOMAIN obj \ {key} |-> obj[k]]

WithDrops(e, obj) == IF e.partial THEN {obj} \cup {Drop(obj, k) : k \in DOMAIN obj} ELSE {obj}

\* the payloads of an environment: obj, obj without one field, the wild ones
Payloads(e, obj, wild) == WithDrops(e, obj) \cup (IF e.wild THEN wild ELSE {})

\* capability fields of an advertisement's serviceData
BLEFull(kind) ==
  IF kind = "IOSensor"
    THEN [battery |-> Num(45), humidity |-> Num(60), celsius |-> Num(22)]
    ELSE [movement |-> Bool(TRUE), lightLevel |-> Str("bright"), battery |-> Num(45)]

BLEWild(kind) ==
  IF kind = "IOSensor"
    THEN {[battery |-> Num(5), humidity |-> Num(999), celsius |-> Num(150)],
          [battery |-> Num(45), humidity |-> Num(60), celsius |-> Num(-5)]}
    ELSE {[movement |-> Bool(FALSE), lightLevel |-> Str("dark"), battery |-> Num(5)]}

\* body of a cloud status response
CloudFull(kind) ==
  IF kind = "IOSensor"
    THEN [battery |-> Num(45), humidity |-> Num(60), temperature |-> Num(22)]
    ELSE [moveDetected |-> Bool(TRUE), brightness |-> Str("bright"), battery |-> Num(45)]

CloudWild(kind) ==
  IF kind = "IOSensor"
    THEN {[battery |-> Num(5), humidity |-> Num(999), temperature |-> Num(150)]}
    ELSE {[moveDetected |-> Bool(FALSE), brightness |-> Str("dim"), battery |-> Num(5)]}

WebhookContexts(e, kind) ==
  IF kind = "IOSensor"
    THEN Payloads(e, [scale |-> Str("CELSIUS"), temperature |-> Num(22), humidity |-> Num(60)],
                  {[scale |-> Str("CELSIUS"), temperature |-> Num(150), humidity |-> Num(999)]})
    ELSE {[detectionState |-> Str("DETECTED")], [detectionState |-> Str("NOT_DETECTED")]}

OtherModel == [model |-> Str("Other"), modelName |-> Str("Other")]

\* advertisements the radio can report during a scan: the device's own, one of
\* another address, one of another model and one of the device's model under
\* another model name
Advertisements(e, d) ==
  {[address |-> "own", serviceData |-> ScanDefault(d) @@ p] :
     p \in Payloads(e, BLEFull(d.kind), BLEWild(d.kind))}
  \cup {[address |-> "other", serviceData |-> ScanDefault(d) @@ BLEFull(d.kind)],
        [address |-> "own", serviceData |-> OtherModel @@ BLEFull(d.kind)],
        [address |-> "own", serviceData |-> [ScanDefault(d) EXCEPT !.modelName = Str("Other")] @@ BLEFull(d.kind)]}

\* contexts the platform hands to the BLE event handler of the device's address
PlatformContexts(e, d) ==
  {ScanDefault(d) @@ p : p \in Payloads(e, BLEFull(d.kind), BLEWild(d.kind))}
  \cup {OtherModel @@ BLEFull(d.kind)}

\* status codes of a cloud response that arrives
StatusCodes == {100, 200, 161}

CloudResponses(e, d) ==
  [statusCode : StatusCodes, body : Payloads(e, CloudFull(d.kind), CloudWild(d.kind))]

\* the host update of a handler run that can throw: none, or one of the first
MaxFailAt == 2
FailPoints(e) == IF e.hostFails THEN 0..MaxFailAt ELSE {0}

(***************************************************************************)
(* Configurations.                                                         *)
(***************************************************************************)
\* refreshStatus reaches its offlineOff branch
OfflineBranch(d) ==
  /\ ~(~d.enableCloudService /\ OpenAPIOf(d.connectionType))
  /\ ~BLEOf(d.connectionType)
  /\ ~(OpenAPIOf(d.connectionType) /\ d.token)

\* every configuration; a setting of the other class is left unset
Configs ==
  {d \in [kind : Kinds, connectionType : ConnectionTypes,
          enableCloudService : BOOLEAN, token : BOOLEAN, offline : BOOLEAN,
          hide_humidity : BOOLEAN, hide_temperature : BOOLEAN, hide_lightsensor : BOOLEAN,
          webhook : BOOLEAN, platformBLE : BOOLEAN,
          convertUnitTo : {Undef}, set_minLux : {Undef}, set_maxLux : {Undef}] :
     /\ d.kind = "IOSensor" => ~d.hide_lightsensor
     /\ d.kind = "Motion" => ~d.hide_humidity /\ ~d.hide_temperature}

NothingHidden(d) == ~d.hide_humidity /\ ~d.hide_temperature /\ ~d.hide_lightsensor

\* a host that accepts every update and payloads that are complete
Plain(slots) == [slots |-> slots, partial |-> FALSE, hostFails |-> FALSE, wild |-> FALSE]

\* an environment that is not plain in exactly one way
Rough(e) ==
  \E f \in {"partial", "hostFails", "wild"} : e = [Plain(1) EXCEPT ![f] = TRUE]

Quiet(d) == NothingHidden(d) /\ ~d.webhook /\ ~d.platformBLE

\* The runs that are explored:
\*  - every transport selection, one cycle at a time, in a quiet setting:
\*    nothing hidden, no push listener (offline is set only where the radio
\*    is not selected);
\*  - overlapping cycles of a quiet IOSensor that has both transports;
\*  - a quiet device on the radio alone whose host updates can throw;
\*  - every hide flag with both push listeners and the cloud, one cycle at a
\*    time, with payloads that lack fields, or payloads out of range, or host
\*    updates that throw;
\*  - every hide flag without push listeners, on the radio alone, or with no
\*    transport and the device marked offline;
\*  - a motion sensor on the radio alone with a webhook listener.
Scenarios ==
  {x \in [d : Configs, e : [slots : 1..MaxCycles, partial : BOOLEAN, hostFails : BOOLEAN,
                            wild : BOOLEAN]] :
     \/ /\ x.e = Plain(1)
        /\ Quiet(x.d)
        /\ x.d.offline => ~BLEOf(x.d.connectionType) /\ ~(OpenAPIOf(x.d.connectionType) /\ x.d.token)
     \/ /\ x.e = Plain(MaxCycles)
        /\ Quiet(x.d) /\ ~x.d.offline
        /\ x.d.kind = "IOSensor" /\ x.d.connectionType = "BLE/OpenAPI"
        /\ x.d.token /\ x.d.enableCloudService
     \/ /\ x.e = [Plain(1) EXCEPT !.hostFails = TRUE]
        /\ Quiet(x.d) /\ ~x.d.offline
        /\ x.d.connectionType = "BLE" /\ ~x.d.token /\ x.d.enableCloudService
     \/ /\ Rough(x.e)
        /\ x.d.webhook /\ x.d.platformBLE /\ ~x.d.offline
        /\ x.d.connectionType = "OpenAPI" /\ x.d.token /\ x.d.enableCloudService
     \/ /\ x.e = Plain(1)
        /\ ~NothingHidden(x.d) /\ ~x.d.webhook /\ ~x.d.platformBLE
        /\ ~x.d.token /\ x.d.enableCloudService
        /\ \/ x.d.connectionType = "BLE" /\ ~x.d.offline
           \/ x.d.connectionType = "Disabled" /\ x.d.offline
     \/ /\ x.e = Plain(1)
        /\ NothingHidden(x.d) /\ x.d.webhook /\ ~x.d.platformBLE
        /\ x.d.kind = "Motion" /\ x.d.connectionType = "BLE"
        /\ ~x.d.token /\ x.d.enableCloudService /\ ~x.d.offline}

(***************************************************************************)
(* State.                                                                  *)
(***************************************************************************)
(***************************************************************************)
(* deviceBase: the classification of cloud status codes and the command    *)
(* path.                                                                   *)
(***************************************************************************)
\* this.device.deviceId
DeviceId == Str("C0FFEE123456")

\* the values of this.device.hubDeviceId: the device itself, the placeholder,
\* a hub, none
HubDeviceIds == {DeviceId, Str("000000000000"), Str("F0CACC1A0001"), Undef}

\* the keys of statusMessages
TableCodes == {151, 152, 160, 161, 171, 190, 100, 200, 400, 401, 403, 404, 406, 415, 422, 429, 500}

\* codes a response can carry: those of the table and some outside it
CodeInputs == TableCodes \cup {0, 101, 170, 172, 201, 503}

\* statusMessages[statusCode]
statusMessages(statusCode) ==
  CASE statusCode = 151 -> "Command not supported by this deviceType"
    [] statusCode = 152 -> "Device not found"
    [] statusCode = 160 -> "Command is not supported"
    [] statusCode = 161 -> "Device is offline"
    [] statusCode = 171 -> "Hub Device is offline. Hub: ${this.device.hubDeviceId}"
    [] statusCode = 190 -> "Device internal error due to device states not synchronized with server, or command format is invalid"
    [] statusCode = 100 -> "Command successfully sent"
    [] statusCode = 200 -> "Request successful"
    [] statusCode = 400 -> "Bad Request, an invalid payload request"
    [] statusCode = 401 -> "Unauthorized, Authorization for the API is required, but the request has not been authenticated"
    [] statusCode = 403 -> "Forbidden, The request has been authenticated but does not have appropriate permissions, or a requested resource is not found"
    [] statusCode = 404 -> "Not Found, Specifies the requested path does not exist"
    [] statusCode = 406 -> "Not Acceptable, a MIME type has been requested via the Accept header for a value not supported by the server"
    [] statusCode = 415 -> "Unsupported Media Type, a contentType header has been defined that is not supported by the server"
    [] statusCode = 422 -> "Unprocessable Entity: The server cannot process the request, often due to exceeded API limits."
    [] statusCode = 429 -> "Too Many Requests, exceeded the number of requests allowed for a given time window"
    [] statusCode = 500 -> "Internal Server Error, An unexpected error occurred. These errors should be rare"
    [] OTHER -> ""

UnknownStatusCode == "Unknown statusCode: ${statusCode}, Submit Bugs Here: https://tinyurl.com/SwitchBotBug"

\* a classification that knows the device's own id but not the placeholder
statusCode_OwnIdOnly(code, hubDeviceId, deviceId) ==
  LET remap == code = 171 /\ hubDeviceId = deviceId
      sc == IF remap THEN 161 ELSE code
      known == statusMessages(sc) # ""
  IN [statusCode |-> sc,
      changed |-> remap,
      message |-> IF known THEN statusMessages(sc) ELSE UnknownStatusCode,
      method |-> IF sc \in {100, 200} THEN "debugLog"
                 ELSE IF known THEN "errorLog" ELSE "infoLog"]

\* a classification that reports every code of the table as an error
statusCode_TableAsError(code, hubDeviceId, deviceId) ==
  LET remap == code = 171 /\ (hubDeviceId = deviceId \/ hubDeviceId = Str("000000000000"))
      sc == IF remap THEN 161 ELSE code
      known == statusMessages(sc) # ""
  IN [statusCode |-> sc,
      changed |-> remap,
      message |-> IF known THEN statusMessages(sc) ELSE UnknownStatusCode,
      method |-> IF known THEN "errorLog" ELSE "infoLog"]

\* deviceBase.statusCode: the code it reports, the log method and the message
statusCode(code, hubDeviceId, deviceId) ==
  LET remap == code = 171 /\ (hubDeviceId = deviceId \/ hubDeviceId = Str("000000000000"))
      sc == IF remap THEN 161 ELSE code
      known == statusMessages(sc) # ""
  IN [statusCode |-> sc,
      changed |-> remap,
      message |-> IF known THEN statusMessages(sc) ELSE UnknownStatusCode,
      method |-> IF sc \in {100, 200} THEN "debugLog"
                 ELSE IF known THEN "errorLog" ELSE "infoLog"]

NotLogged ==
  [called |-> FALSE, code |-> 0, hubDeviceId |-> Undef,
   log |-> [statusCode |-> 0, changed |-> FALSE, message |-> "", method |-> ""]]

\* the bodyChange objects a caller passes
BodyChanges ==
  [command : {"turnOn", "setPosition"}, parameter : {"default", "0,ff,50"}, commandType : {"command", "customize"}]

\* the bodies controlDevice resolves with
PushResponses == {[items |-> Str("ok")], [message |-> Str("refused")]}

\* the status codes controlDevice resolves with
PushStatusCodes == {100, 161, 171, 190, 500}

NoBodyChange == [command |-> "", parameter |-> "", commandType |-> ""]

NoCommand == [pc |-> "idle", bodyChange |-> NoBodyChange, sent |-> <<>>, result |-> Undef]

\* the most retries a caller of retryBLE asks for
MaxRetry == 3

\* the errors an invocation of fn can fail with
RetryErrors == {"E1", "E2"}

NoRetry == [pc |-> "idle", max |-> 0, left |-> 0, calls |-> 0, errs |-> <<>>,
            thrown |-> "", sync |-> FALSE]

\* retryBLE({ max, fn }): calls fn() and awaits its promise
retryBLE(r, max) == [r EXCEPT !.pc = "fn", !.left = max, !.calls = @ + 1]

\* a catch that gives up one retry early
retryBLECatch_Early(r, e) ==
  IF r.left <= 1
    THEN [r EXCEPT !.pc = "thrown", !.errs = Append(@, e), !.thrown = e]
    ELSE [r EXCEPT !.pc = "sleep", !.errs = Append(@, e)]

\* the catch callback of retryBLE up to its await of sleep(1000)
retryBLECatch(r, e) ==
  IF r.left = 0
    THEN [r EXCEPT !.pc = "thrown", !.errs = Append(@, e), !.thrown = e]
    ELSE [r EXCEPT !.pc = "sleep", !.errs = Append(@, e)]

\* the largest scanDuration, updateRate and platformUpdateRate configured
MaxRate == 6

\* device.updateRate ?? platformUpdateRate ?? 5
DefaultUpdateRate == 5

\* device.scanDuration ?? 1
DefaultScanDuration == 1

RateInputs == {Undef} \cup {Num(n) : n \in 0..MaxRate}

NoRates == [called |-> FALSE, scanDuration |-> Undef, updateRate |-> Undef,
            platformUpdateRate |-> Undef, deviceUpdateRate |-> 0, used |-> 0]

MathMax(a, b) == IF a >= b THEN a ELSE b

\* rate settings that take the configured scanDuration as it is
getDeviceRateSettings_Configured(scanDuration, updateRate, platformUpdateRate) ==
  LET deviceUpdateRate == Coalesce(updateRate, Coalesce(platformUpdateRate, Num(DefaultUpdateRate))).n
  IN [called |-> TRUE, scanDuration |-> scanDuration, updateRate |-> updateRate,
      platformUpdateRate |-> platformUpdateRate, deviceUpdateRate |-> deviceUpdateRate,
      used |-> Coalesce(scanDuration, Num(DefaultScanDuration)).n]

\* deviceBase.getDeviceRateSettings: this.deviceUpdateRate and this.scanDuration
getDeviceRateSettings(scanDuration, updateRate, platformUpdateRate) ==
  LET deviceUpdateRate == Coalesce(updateRate, Coalesce(platformUpdateRate, Num(DefaultUpdateRate))).n
  IN [called |-> TRUE, scanDuration |-> scanDuration, updateRate |-> updateRate,
      platformUpdateRate |-> platformUpdateRate, deviceUpdateRate |-> deviceUpdateRate,
      used |-> MathMax(Coalesce(scanDuration, Num(DefaultScanDuration)).n,
                       IF deviceUpdateRate > 1 THEN deviceUpdateRate ELSE 1)]

VARIABLES
  logged,            \* the last call of deviceBase.statusCode and what it logged
  command,           \* the call of deviceBase.pushChangeRequest
  retry,             \* the call of deviceBase.retryBLE
  rates,             \* what deviceBase.getDeviceRateSettings read and set
  device,            \* the configuration (device, platform.config)
  env,               \* the environment of the run
  current,           \* in-memory characteristic values (this.Battery.BatteryLevel, ...)
  context,           \* accessory.context[CharacteristicName]
  host,              \* the value HomeKit was last told, per characteristic
  cyc,               \* the refresh cycles in flight
  onadvertisement,   \* the cycle whose scan owns switchbot.onadvertisement (0: none)
  skipping,          \* skipWhile has not yet let a tick through
  updateInProgress,  \* ioSensorUpdateInProgress / motionUbpdateInProgress
  last               \* the last handler run, as observed from outside

vars == <<logged, command, retry, rates, device, env, current, context, host, cyc, onadvertisement, skipping,
          updateInProgress, last>>

\* what a handler run leaves behind: op its name, c its cycle (0: none), tr the
\* transports the cycle has attempted, n the host updates the run made, failed
\* the characteristic whose host update threw, input the payload it decoded,
\* end how the cycle ended if it did, again whether it repeated a publish pass,
\* status the status code of the cloud response it received (0: none)
Observed(op, c, tr, st, input, end) ==
  [op |-> op, c |-> c, tr |-> tr, n |-> st.n, failed |-> st.failed, input |-> input,
   end |-> end, again |-> FALSE, status |-> 0, stale |-> FALSE]

\* the handler run l made a publish pass and no host update threw
Published(l) ==
  /\ l.op \in {"Webhook", "PlatformBLE"} \/ l.end \in {"decoded", "cloudDecoded"}
  /\ l.failed = ""

\* the run l, after which the in-memory values are m, follows the last run:
\* both made a publish pass, of the same values
\* and whether a scan in flight holds service data that is older than a push
\* event: so it is from a push event handled after the scan captured an
\* advertisement, until the scan captures another or ends
After(l, m) ==
  [l EXCEPT !.again = Published(last) /\ Published(l) /\ m = current,
            !.stale = CASE l.op \in {"Webhook", "PlatformBLE"} ->
                             last.stale \/ \E c \in Cycles : cyc[c].pc = "wait" /\ cyc[c].seen
                        [] l.op = "onadvertisement" -> last.stale /\ l.input = NoData
                        [] l.op = "ScanStopped" -> FALSE
                        [] OTHER -> last.stale]

InFlight == {c \in Cycles : cyc[c].pc # "idle"}

FreeSlots == Cycles \ InFlight

Lowest(S) == CHOOSE c \in S : \A x \in S : c <= x

\* a handler run of cycle c ends: the cycle is now cy (its slot is freed when
\* it is done), the pass state st, the in-memory values m
Commit(op, c, cy, st, m, input) ==
  /\ current' = m
  /\ host' = st.host
  /\ context' = st.context
  /\ cyc' = [cyc EXCEPT ![c] = IF cy.pc = "done" THEN Idle ELSE cy]
  /\ last' = After(Observed(op, c, cy.tr, st, input, cy.end), m)

\* the handler run of cycle c that received a cloud response ends
CommitCloud(c, cy, st, m, input, code) ==
  /\ current' = m
  /\ host' = st.host
  /\ context' = st.context
  /\ cyc' = [cyc EXCEPT ![c] = IF cy.pc = "done" THEN Idle ELSE cy]
  /\ last' = [After(Observed("CloudResponded", c, cy.tr, st, input, cy.end), m)
                EXCEPT !.status = code]

\* a handler run of no cycle ends
CommitPush(op, st, m, input) ==
  /\ current' = m
  /\ host' = st.host
  /\ context' = st.context
  /\ cyc' = cyc
  /\ last' = After(Observed(op, 0, <<>>, st, input, ""), m)

(***************************************************************************)
(* Init: the state the constructor leaves, its refreshStatus() call        *)
(* suspended at its first await.                                           *)
(***************************************************************************)
Init ==
  \E x \in Scenarios : \E failAt \in FailPoints(x.e) :
    LET d == x.d
        cy == refreshStatus(d, Idle)
        m == InitialValues(d)
        st0 == PassStart([c \in KindCaps(d.kind) |-> Undef], [c \in KindCaps(d.kind) |-> Undef])
        st == IF cy.end = "offlineOff" THEN offlineOff(d, st0, failAt) ELSE st0
    IN /\ logged = NotLogged
       /\ command = NoCommand
       /\ retry = NoRetry
       /\ rates = NoRates
       /\ device = d
       /\ env = x.e
       /\ current = m
       /\ host = st.host
       /\ context = st.context
       /\ cyc = [c \in Cycles |-> IF c = 1 /\ cy.pc # "done" THEN cy ELSE Idle]
       /\ onadvertisement = 0
       /\ skipping = TRUE
       /\ updateInProgress = FALSE
       /\ last = Observed("constructor", 1, cy.tr, st, NoData, IF st.ok THEN cy.end ELSE "rejected")

(***************************************************************************)
(* Actions.  A cycle that ends with an exception no handler catches (an    *)
(* unhandled rejection) ends as "rejected".                                *)
(***************************************************************************)
\* the interval fires: interval(...).pipe(skipWhile(flag)).subscribe(refreshStatus)
Tick ==
  /\ Cardinality(InFlight) < env.slots
  /\ UNCHANGED <<logged, command, retry, rates, device, env, onadvertisement, updateInProgress>>
  /\ IF skipping /\ updateInProgress
       THEN /\ UNCHANGED <<current, host, context, cyc, skipping>>
            /\ last' = Observed("TickSkipped", 0, <<>>, PassStart(host, context), NoData, "")
       ELSE \E failAt \in FailPoints(env) :
              LET c == Lowest(FreeSlots)
                  cy == refreshStatus(device, Idle)
                  st0 == PassStart(host, context)
                  st == IF cy.end = "offlineOff" THEN offlineOff(device, st0, failAt) ELSE st0
              IN /\ skipping' = FALSE
                 /\ Commit("Tick", c, IF st.ok THEN cy ELSE Ended(cy, "rejected"), st, current, NoData)

\* await this.switchbotBLE() settles: the radio object, or undefined.  With the
\* object, monitorAdvertisementPackets calls startScan and refreshStatus returns
BLEConnected(c) ==
  /\ cyc[c].pc = "connectBLE"
  /\ UNCHANGED <<logged, command, retry, rates, device, env, onadvertisement, skipping, updateInProgress>>
  /\ \E defined \in BOOLEAN :
       LET cy == IF defined
                   THEN [cyc[c] EXCEPT !.pc = "startScan", !.tr = Append(@, "startScan")]
                   ELSE BLERefreshConnection(device, cyc[c])
       IN Commit("BLEConnected", c, cy, PassStart(host, context), current, NoData)

\* a start of the scan whose rejection ends the cycle
ScanStarted_Abort(c) ==
  /\ cyc[c].pc = "startScan"
  /\ UNCHANGED <<logged, command, retry, rates, device, env, skipping, updateInProgress>>
  /\ \E resolved \in BOOLEAN :
       IF resolved
         THEN /\ onadvertisement' = c
              /\ Commit("ScanStarted", c, [cyc[c] EXCEPT !.pc = "wait", !.sd = ScanDefault(device)],
                        PassStart(host, context), current, NoData)
         ELSE /\ onadvertisement' = onadvertisement
              /\ Commit("ScanStartFailed", c, Ended(cyc[c], "rejected"),
                        PassStart(host, context), current, NoData)

\* await switchbot.startScan(...) settles: it resolves, or it rejects and the
\* rejection is caught and logged; either way the handler is set and the wait
\* begins
ScanStarted(c) ==
  /\ cyc[c].pc = "startScan"
  /\ UNCHANGED <<logged, command, retry, rates, device, env, skipping, updateInProgress>>
  /\ onadvertisement' = c
  /\ \E resolved \in BOOLEAN :
       Commit(IF resolved THEN "ScanStarted" ELSE "ScanStartFailed", c,
              [cyc[c] EXCEPT !.pc = "wait", !.sd = ScanDefault(device)],
              PassStart(host, context), current, NoData)

\* the radio reports an advertisement to switchbot.onadvertisement
Advertisement ==
  /\ onadvertisement # 0
  /\ UNCHANGED <<logged, command, retry, rates, device, env, onadvertisement, skipping, updateInProgress>>
  /\ \E ad \in Advertisements(env, device) :
       LET c == onadvertisement
           cy == IF AdPasses(device, ad)
                   THEN [cyc[c] EXCEPT !.sd = ad.serviceData, !.seen = TRUE]
                   ELSE cyc[c]
       IN Commit("onadvertisement", c, cy, PassStart(host, context), current,
                 IF AdPasses(device, ad) THEN ad.serviceData ELSE NoData)

\* await switchbot.wait(scanDuration * 1000) ends; stopScan is called
WaitDone(c) ==
  /\ cyc[c].pc = "wait"
  /\ UNCHANGED <<logged, command, retry, rates, device, env, onadvertisement, skipping, updateInProgress>>
  /\ Commit("WaitDone", c, [cyc[c] EXCEPT !.pc = "stopScan"],
            PassStart(host, context), current, NoData)

\* await switchbot.stopScan() settles (a rejection is caught and logged);
\* monitorAdvertisementPackets returns and BLERefreshStatus decodes and
\* publishes the result, or falls back
ScanStopped(c) ==
  /\ cyc[c].pc = "stopScan"
  /\ UNCHANGED <<logged, command, retry, rates, device, env, skipping, updateInProgress>>
  /\ onadvertisement' = IF onadvertisement = c THEN 0 ELSE onadvertisement
  /\ \E failAt \in FailPoints(env) :
       LET serviceData == cyc[c].sd
           accepted == ScanAccepted(device, serviceData)
           m == IF accepted THEN BLEparseStatus(device, current, serviceData) ELSE current
           st0 == PassStart(host, context)
           st == IF accepted THEN updateHomeKitCharacteristics(device, st0, m, failAt) ELSE st0
           cy == IF accepted
                   THEN Ended(cyc[c], IF st.ok THEN "decoded" ELSE "rejected")
                   ELSE BLERefreshConnection(device, cyc[c])
       IN Commit("ScanStopped", c, cy, st, m, IF accepted THEN serviceData ELSE NoData)

\* await this.deviceRefreshStatus() returns a response
CloudResponded(c) ==
  /\ cyc[c].pc = "cloud"
  /\ UNCHANGED <<logged, command, retry, rates, device, env, onadvertisement, skipping, updateInProgress>>
  /\ \E r \in CloudResponses(env, device), failAt \in FailPoints(env) :
       LET success == successfulStatusCodes(r.statusCode)
           m == IF success THEN openAPIparseStatus(device, current, r.body) ELSE current
           st0 == PassStart(host, context)
           s1 == IF success THEN updateHomeKitCharacteristics(device, st0, m, failAt) ELSE st0
           \* a publish that throws is caught by openAPIRefreshStatus
           st == IF s1.ok THEN s1 ELSE apiError(device, [s1 EXCEPT !.ok = TRUE], ErrObj, failAt)
           cy == Ended(cyc[c], IF ~success THEN "cloudStatus"
                               ELSE IF s1.ok THEN "cloudDecoded" ELSE "cloudError")
       IN CommitCloud(c, cy, st, m, IF success THEN r.body ELSE NoData, r.statusCode)

\* a cloud failure that goes back to the radio when the cycle came from it
CloudThrew_Rescan(c) ==
  /\ cyc[c].pc = "cloud"
  /\ UNCHANGED <<logged, command, retry, rates, device, env, onadvertisement, skipping, updateInProgress>>
  /\ LET st == apiError(device, PassStart(host, context), ErrObj, 0)
         cy == IF Count(cyc[c].tr, "BLERefreshStatus") > 0
                 THEN BLERefreshStatus(cyc[c])
                 ELSE Ended(cyc[c], "cloudError")
     IN Commit("CloudThrew", c, cy, st, current, NoData)

\* await this.deviceRefreshStatus() throws
CloudThrew(c) ==
  /\ cyc[c].pc = "cloud"
  /\ UNCHANGED <<logged, command, retry, rates, device, env, onadvertisement, skipping, updateInProgress>>
  /\ \E failAt \in FailPoints(env) :
       LET st == apiError(device, PassStart(host, context), ErrObj, failAt)
       IN Commit("CloudThrew", c, Ended(cyc[c], IF st.ok THEN "cloudError" ELSE "rejected"),
                 st, current, NoData)

\* a webhook handler that drops the event while a refresh cycle is in flight
Webhook_Gated ==
  /\ device.webhook
  /\ UNCHANGED <<logged, command, retry, rates, device, env, onadvertisement, skipping, updateInProgress>>
  /\ \E webhookContext \in WebhookContexts(env, device.kind), failAt \in FailPoints(env) :
       LET m == IF InFlight = {} THEN parseStatusWebhook(device, current, webhookContext)
                ELSE current
           st == IF InFlight = {}
                   THEN updateHomeKitCharacteristics(device, PassStart(host, context), m, failAt)
                   ELSE PassStart(host, context)
       IN CommitPush("Webhook", st, m, webhookContext)

\* platform.webhookEventHandler[deviceId](context); an exception is caught
Webhook ==
  /\ device.webhook
  /\ UNCHANGED <<logged, command, retry, rates, device, env, onadvertisement, skipping, updateInProgress>>
  /\ \E webhookContext \in WebhookContexts(env, device.kind), failAt \in FailPoints(env) :
       LET m == parseStatusWebhook(device, current, webhookContext)
           st == updateHomeKitCharacteristics(device, PassStart(host, context), m, failAt)
       IN CommitPush("Webhook", st, m, webhookContext)

\* platform.bleEventHandler[bleMac](context); an exception is caught
PlatformBLE ==
  /\ device.platformBLE
  /\ UNCHANGED <<logged, command, retry, rates, device, env, onadvertisement, skipping, updateInProgress>>
  /\ \E serviceData \in PlatformContexts(env, device), failAt \in FailPoints(env) :
       LET m == BLEparseStatus(device, current, serviceData)
           st == updateHomeKitCharacteristics(device, PassStart(host, context), m, failAt)
       IN CommitPush("PlatformBLE", st, m, serviceData)

Next ==
  \/ Tick
  \/ Advertisement
  \/ Webhook
  \/ PlatformBLE
  \/ \E c \in Cycles : BLEConnected(c)
  \/ \E c \in Cycles : ScanStarted(c)
  \/ \E c \in Cycles : WaitDone(c)
  \/ \E c \in Cycles : ScanStopped(c)
  \/ \E c \in Cycles : CloudResponded(c)
  \/ \E c \in Cycles : CloudThrew(c)

Spec == Init /\ [][Next]_vars

(***************************************************************************)
(* The methods of deviceBase that the sensors inherit and a caller uses    *)
(* on its own: statusCode and pushChangeRequest.                           *)
(***************************************************************************)
Sensor == <<device, env, current, context, host, cyc, onadvertisement, skipping,
            updateInProgress, last>>

\* a call of statusCode(statusCode)
StatusCodeCalled ==
  /\ UNCHANGED <<command, retry, rates, Sensor>>
  /\ \E code \in CodeInputs : \E hubDeviceId \in HubDeviceIds :
       logged' = [called |-> TRUE, code |-> code, hubDeviceId |-> hubDeviceId,
                  log |-> statusCode(code, hubDeviceId, DeviceId)]

\* pushChangeRequest(bodyChange) up to its await of controlDevice
pushChangeRequest(bodyChange) ==
  [pc |-> "controlDevice", bodyChange |-> bodyChange,
   sent |-> << [deviceId |-> DeviceId, command |-> bodyChange.command,
                parameter |-> bodyChange.parameter, commandType |-> bodyChange.commandType] >>,
   result |-> Undef]

\* a caller calls pushChangeRequest
PushChangeRequest ==
  /\ command.pc # "controlDevice"
  /\ UNCHANGED <<logged, retry, rates, Sensor>>
  /\ \E bodyChange \in BodyChanges : command' = pushChangeRequest(bodyChange)

\* a command path that sends the command again when the status is no success
pushChangeRequestReturn_Resend(cmd, response, code) ==
  IF code \in {100, 200}
    THEN [cmd EXCEPT !.pc = "returned", !.result = [body |-> response, statusCode |-> code]]
    ELSE [cmd EXCEPT !.sent = Append(@, @[1])]

\* pushChangeRequest after controlDevice resolved: return { body: response, statusCode }
pushChangeRequestReturn(cmd, response, code) ==
  [cmd EXCEPT !.pc = "returned", !.result = [body |-> response, statusCode |-> code]]

\* controlDevice resolves with { response, statusCode }
ControlDeviceResponded ==
  /\ command.pc = "controlDevice"
  /\ UNCHANGED <<logged, retry, rates, Sensor>>
  /\ \E response \in PushResponses : \E code \in PushStatusCodes :
       command' = pushChangeRequestReturn(command, response, code)

\* controlDevice rejects: pushChangeRequest rejects with the same error
ControlDeviceThrew ==
  /\ command.pc = "controlDevice"
  /\ UNCHANGED <<logged, retry, rates, Sensor>>
  /\ command' = [command EXCEPT !.pc = "threw", !.result = ErrObj]

BaseInit ==
  /\ Init
  /\ env = Plain(1)
  /\ device.kind = "IOSensor"
  /\ device.connectionType = "Disabled"
  /\ device.enableCloudService /\ ~device.token /\ ~device.offline

BaseNext ==
  \/ StatusCodeCalled
  \/ PushChangeRequest
  \/ ControlDeviceResponded
  \/ ControlDeviceThrew

BaseSpec == BaseInit /\ [][BaseNext]_vars

\* a caller calls retryBLE({ max, fn }); fn is invoked
RetryBLECalled ==
  /\ retry.pc \in {"idle", "returned", "thrown"}
  /\ UNCHANGED <<logged, command, rates, Sensor>>
  /\ \E max \in 0..MaxRetry : retry' = retryBLE([NoRetry EXCEPT !.max = max], max)

\* the promise of fn() resolves: retryBLE resolves with its value
FnResolved ==
  /\ retry.pc = "fn"
  /\ UNCHANGED <<logged, command, rates, Sensor>>
  /\ retry' = [retry EXCEPT !.pc = "returned"]

\* the promise of fn() rejects with e: the catch callback runs
FnRejected ==
  /\ retry.pc = "fn"
  /\ UNCHANGED <<logged, command, rates, Sensor>>
  /\ \E e \in RetryErrors : retry' = retryBLECatch(retry, e)

\* fn() throws before it returns a promise, or returns none: no catch is
\* attached and the promise of retryBLE rejects with the error
FnThrew ==
  /\ retry.pc = "fn"
  /\ UNCHANGED <<logged, command, rates, Sensor>>
  /\ \E e \in RetryErrors :
       retry' = [retry EXCEPT !.pc = "thrown", !.errs = Append(@, e), !.thrown = e,
                              !.sync = TRUE]

\* sleep(1000) is over: return this.retryBLE({ max: max - 1, fn })
Slept ==
  /\ retry.pc = "sleep"
  /\ UNCHANGED <<logged, command, rates, Sensor>>
  /\ retry' = retryBLE(retry, retry.left - 1)

RetryNext ==
  \/ RetryBLECalled
  \/ FnResolved
  \/ FnRejected
  \/ FnThrew
  \/ Slept

RetrySpec == BaseInit /\ [][RetryNext]_vars

\* the constructor calls getDeviceRateSettings(device)
GetDeviceRateSettings ==
  /\ UNCHANGED <<logged, command, retry, Sensor>>
  /\ \E scanDuration \in RateInputs : \E updateRate \in RateInputs :
       \E platformUpdateRate \in RateInputs :
         rates' = getDeviceRateSettings(scanDuration, updateRate, platformUpdateRate)

RateNext == GetDeviceRateSettings

RateSpec == BaseInit /\ [][RateNext]_vars

(***************************************************************************)
(* Properties.                                                             *)
(***************************************************************************)
\* every transports trace of the state: of the cycles in flight, of the last run
Traces == {cyc[c].tr : c \in Cycles} \cup {last.tr}

\* the last handler run was a call of refreshStatus
Refreshed == last.op \in {"constructor", "Tick"}

BothTransports == device.connectionType = "BLE/OpenAPI" /\ device.token

\* the await of stopScan of cycle c settles in this step
ScanEnds(c) == cyc[c].pc = "stopScan" /\ cyc'[c].pc # "stopScan"

\* C1: at every instant at most one transport attempt started by refreshStatus
\* is active for the device; a tick during a cycle in flight starts nothing.
C1_OneActiveAttempt == Cardinality(InFlight) <= 1

\* C2: with both transports and a token, a scan that ends without a matching
\* advertisement, or with a payload of another model or model name, is followed
\* by a cloud fetch of the same cycle.
C2_RadioFallback ==
  [][\A c \in Cycles :
       (/\ ScanEnds(c)
        /\ BothTransports
        /\ ~cyc[c].seen \/ ~ScanAccepted(device, cyc[c].sd))
       => cyc'[c].pc = "cloud"]_vars

\* C3: a scan that ends without having seen a matching advertisement changes
\* no in-memory characteristic value.
C3_EmptyScanKeepsState ==
  [][\A c \in Cycles : (ScanEnds(c) /\ ~cyc[c].seen) => current' = current]_vars

\* C4: a cycle asks for the radio at most once, starts at most one scan and
\* makes at most one cloud fetch; once its cloud fetch has settled, with
\* whatever result, the cycle has ended.
C4_HopLimit ==
  /\ \A tr \in Traces :
       /\ Count(tr, "BLERefreshStatus") <= 1
       /\ Count(tr, "startScan") <= 1
       /\ Count(tr, "openAPIRefreshStatus") <= 1
  /\ last.op \in {"CloudResponded", "CloudThrew"} => last.end # "" /\ cyc[last.c].pc = "idle"

\* a cycle whose radio failed and whose cloud fetch then failed has ended
C4_Witness ==
  /\ last.tr = <<"BLERefreshStatus", "startScan", "openAPIRefreshStatus">>
  /\ last.end \in {"cloudError", "cloudStatus"}

\* C5: a cycle that passes the enableCloudService check asks for the radio first
\* whenever the connection type has BLE; a cloud fetch comes first only without
\* BLE, with OpenAPI and a token.
C5_RadioFirst ==
  /\ \A tr \in Traces :
       tr # <<>> =>
         /\ BLEOf(device.connectionType) => tr[1] = "BLERefreshStatus"
         /\ tr[1] = "openAPIRefreshStatus" =>
              ~BLEOf(device.connectionType) /\ OpenAPIOf(device.connectionType) /\ device.token
  /\ (Refreshed /\ last.end # "gate" /\ BLEOf(device.connectionType)) =>
       last.tr = <<"BLERefreshStatus">>
  /\ (Refreshed /\ last.end # "gate" /\ ~BLEOf(device.connectionType)
        /\ OpenAPIOf(device.connectionType) /\ device.token) =>
       last.tr = <<"openAPIRefreshStatus">>

\* a tick of a device with both transports and a token has asked for the radio
C5_Witness ==
  /\ BothTransports
  /\ last.op = "Tick"
  /\ last.tr = <<"BLERefreshStatus">>

NoCloudFetch ==
  /\ \A tr \in Traces : Count(tr, "openAPIRefreshStatus") = 0
  /\ \A c \in Cycles : cyc[c].pc # "cloud"

NoRadio ==
  /\ \A tr \in Traces : Count(tr, "BLERefreshStatus") = 0 /\ Count(tr, "startScan") = 0
  /\ \A c \in Cycles : cyc[c].pc \notin {"connectBLE", "startScan", "wait", "stopScan"}

CloudRequiredNoToken == OpenAPIOf(device.connectionType) /\ ~device.token

C7_ConfiguredTransportsOnly ==
  /\ device.connectionType = "BLE" => NoCloudFetch
  /\ device.connectionType = "OpenAPI" => NoRadio

\* the scan of a device on BLE alone has failed while a token is stored
C7_Witness ==
  /\ device.connectionType = "BLE" /\ device.token
  /\ last.op = "ScanStopped"
  /\ last.end = "radioFailed"

\* the characteristics a publish pass goes through
Exposed == {PublishOrder(device)[i] : i \in 1..Len(PublishOrder(device))}

\* two handler runs in a row have made a publish pass of the same values
PublishedTwice == Published(last) /\ Published(last') /\ current' = current

C9_ContextFollowsHost ==
  [][\A cap \in DOMAIN context :
       /\ context'[cap] # context[cap] =>
            /\ last'.op \in {"Webhook", "PlatformBLE", "ScanStopped", "CloudResponded"}
            /\ context'[cap] # Undef
            /\ context'[cap] = current'[cap]
            /\ last'.failed # cap
            /\ \/ host'[cap] = context'[cap]
               \/ last'.end = "cloudError" /\ host'[cap] = ErrObj
       /\ current'[cap] = Undef => context'[cap] = context[cap]]_vars

\* a publish pass has recorded one value and its next host update has thrown
C9_Witness ==
  /\ last.op \in {"Webhook", "PlatformBLE"}
  /\ last.n = 1
  /\ last.failed # ""
  /\ context[last.failed] # current[last.failed]
  /\ \E cap \in Exposed : context[cap] = current[cap] /\ host[cap] = current[cap]

\* the payload field a decoder reads for a characteristic ("": none)
FieldOf(op, cap) ==
  IF op \in {"PlatformBLE", "ScanStopped"}
    THEN CASE cap \in {"BatteryLevel", "StatusLowBattery"} -> "battery"
           [] cap = "CurrentRelativeHumidity" -> "humidity"
           [] cap = "CurrentTemperature" -> "celsius"
           [] cap = "MotionDetected" -> "movement"
           [] cap = "CurrentAmbientLightLevel" -> "lightLevel"
  ELSE IF op = "CloudResponded"
    THEN CASE cap \in {"BatteryLevel", "StatusLowBattery"} -> "battery"
           [] cap = "CurrentRelativeHumidity" -> "humidity"
           [] cap = "CurrentTemperature" -> "temperature"
           [] cap = "MotionDetected" -> "moveDetected"
           [] cap = "CurrentAmbientLightLevel" -> "brightness"
  ELSE CASE cap = "CurrentRelativeHumidity" -> "humidity"
         [] cap = "CurrentTemperature" -> "temperature"
         [] cap = "MotionDetected" -> "detectionState"
         [] OTHER -> ""

\* the handler run of this step has decoded a payload
Decoded == last' # last /\ last'.input # NoData

\* C10: a decoder leaves the value of every characteristic whose field the
\* payload lacks as it was.
C10_MissingFieldKeepsValue ==
  [][Decoded =>
       \A cap \in DOMAIN current :
         FieldOf(last'.op, cap) \notin DOMAIN last'.input => current'[cap] = current[cap]]_vars

\* a stored value that is a number lies in lo..hi
Within(v, lo, hi) == IsNum(v) => lo <= v.n /\ v.n <= hi

\* C11: the stored humidity of the IO sensor is within [0,100] and its stored
\* temperature within [-273.15,100] (whole degrees here: from -273), whatever
\* a radio, cloud or webhook payload carried.
C11_StoredValuesClamped ==
  device.kind = "IOSensor" =>
    /\ Within(current["CurrentRelativeHumidity"], 0, 100)
    /\ Within(current["CurrentTemperature"], -273, 100)

\* the handler run of this step was handed a radio payload, from a scan or
\* from the platform, that does not carry the device's model and model name
ForeignRadioPayload ==
  /\ last'.op \in {"ScanStopped", "PlatformBLE"}
  /\ ~ScanAccepted(device, IF last'.op = "ScanStopped" THEN cyc[last'.c].sd ELSE last'.input)

\* C12: a radio payload of another model or model name is not decoded: the
\* handler run that receives it changes no in-memory value, no host value and
\* no accessory.context entry.
C12_RadioModelVerified ==
  [][ForeignRadioPayload => current' = current /\ host' = host /\ context' = context]_vars

C14_NonSuccessStatusInert ==
  [][last'.op = "CloudResponded" =>
       /\ last'.status \notin {100, 200} =>
            /\ current' = current /\ host' = host /\ context' = context
            /\ last'.n = 0
            /\ last'.end = "cloudStatus"
       /\ last'.end = "cloudDecoded" => last'.status \in {100, 200}]_vars

\* a response with status 161 has arrived after values had been published
C14_Witness ==
  /\ last.op = "CloudResponded"
  /\ last.status = 161
  /\ last.end = "cloudStatus"
  /\ \A cap \in Exposed : context[cap] # Undef /\ host[cap] = context[cap]

\* the in-memory values the push handler op makes of a payload
PushDecoded(op, input) ==
  IF op = "Webhook" THEN parseStatusWebhook(device, current, input)
  ELSE BLEparseStatus(device, current, input)

\* C15: a webhook event and a platform BLE event are decoded and published by
\* the handler run that receives them, with or without a refresh cycle in
\* flight: the in-memory values are the decoded ones and, unless a host update
\* throws, every defined value of an exposed characteristic has gone to the
\* host and is recorded.
C15_PushNeverWaits ==
  [][last'.op \in {"Webhook", "PlatformBLE"} =>
       /\ current' = PushDecoded(last'.op, last'.input)
       /\ cyc' = cyc
       /\ last'.failed = "" =>
            /\ last'.n = Cardinality({cap \in Exposed : current'[cap] # Undef})
            /\ \A cap \in Exposed :
                 current'[cap] # Undef =>
                   host'[cap] = current'[cap] /\ context'[cap] = current'[cap]]_vars

\* a webhook event has been decoded and published while a cloud fetch of the
\* device was in flight
C15_Witness ==
  /\ last.op = "Webhook"
  /\ last.n = Cardinality(Exposed)
  /\ \E c \in Cycles : cyc[c].pc = "cloud"
  /\ \A cap \in Exposed : host[cap] = current[cap]

\* C16: no handler run of the device ends with an exception that no handler
\* of the device's pipeline catches.
C16_ErrorsContained == last.end # "rejected"

\* C17: a scan whose start has settled, resolved or rejected, waits; the wait
\* ends only by its timer, whatever advertisement has been seen, and is
\* followed by the stop; the stop hands the result to BLERefreshStatus, which
\* decodes it or falls back, and no exception comes out of the scan itself.
C17_ScanBounded ==
  [][\A c \in Cycles :
          /\ (cyc[c].pc = "startScan" /\ cyc'[c] # cyc[c]) => cyc'[c].pc = "wait"
          /\ (cyc[c].pc = "wait" /\ cyc'[c].pc # "wait") =>
               last'.op = "WaitDone" /\ cyc'[c].pc = "stopScan"
          /\ (cyc[c].pc = "stopScan" /\ cyc'[c].pc # "stopScan") =>
               /\ last'.op = "ScanStopped"
               /\ \/ last'.end \in {"decoded", "radioFailed"}
                  \/ last'.end = "" /\ cyc'[c].pc = "cloud"
                  \/ last'.end = "rejected" /\ last'.failed # ""]_vars

\* a scan whose start was rejected has begun to wait
C17_Witness ==
  /\ last.op = "ScanStartFailed"
  /\ cyc[last.c].pc = "wait"

\* the cycles whose radio scan has been started and not yet stopped
ActiveScans == {c \in Cycles : cyc[c].pc \in {"wait", "stopScan"}}

\* C18: at most one radio scan is active at any time; a scan waits for the
\* earlier scan of the same device to be stopped before it starts.
C18_ScansSerialized == Cardinality(ActiveScans) <= 1

\* the selection of the cycle takes neither the radio nor the cloud with a
\* credential
NothingSelected ==
  ~BLEOf(device.connectionType) /\ ~(OpenAPIOf(device.connectionType) /\ device.token)

\* the cycle is stopped by the first test of refreshStatus
CloudServiceGate == ~device.enableCloudService /\ OpenAPIOf(device.connectionType)

\* the host shows the neutral values of the device's exposed sensors
NeutralShown ==
  IF device.kind = "IOSensor"
    THEN /\ "CurrentRelativeHumidity" \in Exposed => host["CurrentRelativeHumidity"] = Num(DefaultHumidity)
         /\ "CurrentTemperature" \in Exposed => host["CurrentTemperature"] = Num(DefaultTemperature)
    ELSE host["MotionDetected"] = Bool(FALSE)

\* the last refresh attempted no transport and has left no cycle in flight
NoTransportContacted == last.tr = <<>> /\ InFlight = {} /\ NoRadio /\ NoCloudFetch

NoTransportDevice ==
  /\ ~BLEOf(device.connectionType)
  /\ ~OpenAPIOf(device.connectionType)
  /\ ~device.token
  /\ ~device.offline

\* C20: for a device with radio and cloud disabled, no credential and not
\* marked offline, the constructor's refresh and every interval refresh end
\* normally in offlineOff, attempt no transport, make no host update and
\* leave the in-memory values, the host and the accessory context as they were.
C20_NoTransportNoOp ==
  /\ (NoTransportDevice /\ last.op = "constructor") =>
       /\ last.end = "offlineOff" /\ last.tr = <<>> /\ last.n = 0 /\ last.failed = ""
       /\ InFlight = {}
       /\ current = InitialValues(device)
       /\ \A cap \in DOMAIN host : host[cap] = Undef /\ context[cap] = Undef
  /\ [][(NoTransportDevice /\ last'.op = "Tick") =>
          /\ last'.end = "offlineOff" /\ last'.tr = <<>> /\ last'.n = 0 /\ last'.failed = ""
          /\ cyc' = cyc /\ InFlight = {}
          /\ current' = current /\ host' = host /\ context' = context]_vars

\* an interval refresh of such a device has ended and nothing is displayed
C20_Witness ==
  /\ NoTransportDevice
  /\ last.op = "Tick"
  /\ last.end = "offlineOff"
  /\ \A cap \in DOMAIN host : host[cap] = Undef

\* the hubDeviceId of the last statusCode call names the device itself
SelfHub == logged.hubDeviceId \in {DeviceId, Str("000000000000")}

\* C21: statusCode reports 171 as 161, with the message and the severity of
\* 161, when hubDeviceId is the device's own id or the all-zero placeholder;
\* with another hubDeviceId, or none, 171 stays 171; every other code is
\* reported as itself.
C21_SelfHubRemap ==
  logged.called =>
    /\ logged.log.statusCode = IF logged.code = 171 /\ SelfHub THEN 161 ELSE logged.code
    /\ logged.log.changed = (logged.code = 171 /\ SelfHub)
    /\ (logged.code = 171 /\ SelfHub) =>
         logged.log.message = statusMessages(161) /\ logged.log.method = "errorLog"
    /\ (logged.code = 171 /\ ~SelfHub) =>
         logged.log.message = statusMessages(171) /\ logged.log.method = "errorLog"

\* 171 of a device whose hub is the all-zero placeholder has been reported as 161
C21_Witness ==
  /\ logged.called
  /\ logged.code = 171
  /\ logged.hubDeviceId = Str("000000000000")
  /\ logged.log.statusCode = 161
  /\ logged.log.message = "Device is offline"

\* C22: 100 and 200, and only these, pass successfulStatusCodes and are logged
\* by statusCode at debug level; every other code of the table is logged as
\* an error with its message; every code outside the table is logged at info
\* level as unknown, with the hint where to report it.
C22_ClassificationTotal ==
  logged.called =>
    /\ successfulStatusCodes(logged.code) <=> logged.code \in {100, 200}
    /\ successfulStatusCodes(logged.code) <=> logged.log.method = "debugLog"
    /\ logged.code \in TableCodes \ {100, 200} =>
         /\ logged.log.method = "errorLog"
         /\ logged.log.message = statusMessages(logged.log.statusCode)
         /\ logged.log.message # ""
    /\ logged.code \notin TableCodes =>
         /\ logged.log.method = "infoLog"
         /\ logged.log.message = UnknownStatusCode
         /\ logged.log.statusCode = logged.code
    /\ logged.log.method \in {"debugLog", "errorLog", "infoLog"}

\* a code outside the table has been reported as unknown, and 200 as a success
C22_Witness ==
  /\ logged.called
  /\ logged.code = 172
  /\ logged.log.method = "infoLog"
  /\ logged.log.message = UnknownStatusCode

\* C24: one call of pushChangeRequest makes one controlDevice call, with the
\* device's id and the command, parameter and commandType it was given; when
\* that call resolves, its response and status code are returned as
\* { body, statusCode }, success or not; the command is never sent again.
C24_OneCommandCall ==
  /\ [](command.pc # "idle" =>
         /\ Len(command.sent) = 1
         /\ command.sent[1] = [deviceId |-> DeviceId, command |-> command.bodyChange.command,
                               parameter |-> command.bodyChange.parameter,
                               commandType |-> command.bodyChange.commandType])
  /\ [](command.pc = "returned" =>
         /\ command.result.body \in PushResponses
         /\ command.result.statusCode \in PushStatusCodes)
  /\ [][command.pc = "controlDevice" /\ command'.pc # "controlDevice" =>
          /\ command'.pc \in {"returned", "threw"}
          /\ command'.sent = command.sent
          /\ command'.bodyChange = command.bodyChange]_vars

\* a command answered with status 161 has been returned to the caller, sent once
C24_Witness ==
  /\ command.pc = "returned"
  /\ command.result.statusCode = 161
  /\ command.result.body = [message |-> Str("refused")]
  /\ Len(command.sent) = 1

\* the last handler run decoded a payload and began a publish pass in which
\* a host update threw
PassFailed ==
  /\ last.op \in {"ScanStopped", "Webhook", "PlatformBLE"}
  /\ last.failed # ""

\* C23: when the host update of one capability throws during a publish pass,
\* the other capabilities of the pass that have a value are still published.
C23_FailureSkipsOne ==
  PassFailed =>
    \A cap \in Exposed \ {last.failed} :
      current[cap] # Undef => host[cap] = current[cap] /\ context[cap] = current[cap]

\* C25: a cycle that ended in a failure of its transports has left nothing
\* behind that holds the interval back: its slot is free and the skipWhile
\* flag is down; and every tick that is let through starts a cycle from Idle
\* with the whole selection of refreshStatus, whatever the cycles before it did.
C25_FailureNotFatal ==
  /\ [](last.end \in FailureEnds =>
         /\ last.c \in FreeSlots
         /\ cyc[last.c] = Idle
         /\ ~(skipping /\ updateInProgress))
  /\ [][last'.op = "Tick" =>
          LET cy == refreshStatus(device, Idle)
          IN /\ last'.tr = cy.tr
             /\ cy.pc # "done" => cyc'[last'.c] = cy
             /\ cy.pc = "done" => cyc'[last'.c] = Idle /\ last'.end \in {cy.end, "rejected"}]_vars

\* after a cycle that ended in a cloud error (the host still shows the error),
\* a tick has started a new cycle, which is waiting for the cloud
C25_Witness ==
  /\ last.op = "Tick"
  /\ last.tr = <<"openAPIRefreshStatus">>
  /\ cyc[last.c].pc = "cloud"
  /\ \A cap \in Exposed : host[cap] = ErrObj

\* C26: a webhook event delivered again right after its first delivery, the
\* host behaving as it did the first time, leaves the in-memory values, the
\* accessory context and the host as the first delivery left them.
C26_DuplicateWebhookHarmless ==
  [][(/\ last.op = "Webhook"
      /\ last'.op = "Webhook"
      /\ last'.input = last.input
      /\ last'.failed = last.failed) =>
       /\ current' = current
       /\ context' = context
       /\ host' = host
       /\ last'.n = last.n]_vars

\* a DETECTED event has been delivered twice in a row to a motion sensor: the
\* battery level is still the default, so no radio or cloud payload has been
\* decoded, and the run before this one published the same values
C26_Witness ==
  /\ device.kind = "Motion"
  /\ last.op = "Webhook"
  /\ last.input = [detectionState |-> Str("DETECTED")]
  /\ last.again
  /\ last.failed = ""
  /\ current["BatteryLevel"] = Num(DefaultBattery)
  /\ current["MotionDetected"] = Bool(TRUE)
  /\ context["MotionDetected"] = Bool(TRUE)

\* C27: in every reachable state the stored StatusLowBattery is LOW exactly
\* when the stored BatteryLevel is a number below 10, and NORMAL otherwise.
C27_LowBatteryTracksLevel ==
  /\ current["StatusLowBattery"] \in {BATTERY_LEVEL_LOW, BATTERY_LEVEL_NORMAL}
  /\ current["StatusLowBattery"] = BATTERY_LEVEL_LOW <=>
       (IsNum(current["BatteryLevel"]) /\ current["BatteryLevel"].n < 10)
  /\ current["BatteryLevel"] = Num(45) => current["StatusLowBattery"] = BATTERY_LEVEL_NORMAL
  /\ current["BatteryLevel"] = Num(5) => current["StatusLowBattery"] = BATTERY_LEVEL_LOW

\* a cloud body with battery 5 has been decoded and LOW is stored and shown
C27_Witness ==
  /\ last.end = "cloudDecoded"
  /\ last.failed = ""
  /\ current["BatteryLevel"] = Num(5)
  /\ current["StatusLowBattery"] = BATTERY_LEVEL_LOW
  /\ host["StatusLowBattery"] = BATTERY_LEVEL_LOW

\* the characteristics the configuration hides
Hidden == KindCaps(device.kind) \ Exposed

\* C28: the host is never sent a value, nor an error, for a characteristic
\* that the configuration hides, and none is recorded in the accessory context.
C28_HiddenNeverExposed ==
  \A cap \in Hidden : host[cap] = Undef /\ context[cap] = Undef

\* an IO sensor that hides its humidity has shown a cloud error on all its
\* other characteristics
C28_Witness ==
  /\ device.kind = "IOSensor"
  /\ device.hide_humidity
  /\ ~device.hide_temperature
  /\ last.op = "CloudThrew"
  /\ last.failed = ""
  /\ host["CurrentTemperature"] = ErrObj
  /\ host["CurrentRelativeHumidity"] = Undef

\* the last run is the end of an IO sensor's scan that saw an advertisement
\* of the device carrying battery, humidity and celsius, and no host update threw
HappyScan ==
  /\ device.kind = "IOSensor"
  /\ last.op = "ScanStopped"
  /\ last.failed = ""
  /\ {"battery", "humidity", "celsius"} \subseteq DOMAIN last.input

\* C29: a scan of an IO sensor that saw a matching advertisement with
\* battery, humidity and celsius ends the cycle decoded: the battery level
\* with its low-battery status, the humidity and the temperature are stored
\* (values in range as reported) and every exposed one is published to the
\* host and recorded in the context; the cycle makes no cloud fetch.
C29_RadioHappyPath ==
  HappyScan =>
    /\ last.end = "decoded"
    /\ last.c \in FreeSlots
    /\ Count(last.tr, "openAPIRefreshStatus") = 0
    /\ current["BatteryLevel"] = last.input["battery"]
    /\ current["StatusLowBattery"] =
         IF last.input["battery"].n < 10 THEN BATTERY_LEVEL_LOW ELSE BATTERY_LEVEL_NORMAL
    /\ ("CurrentRelativeHumidity" \in Exposed /\ Within(last.input["humidity"], 0, 100)) =>
         current["CurrentRelativeHumidity"] = last.input["humidity"]
    /\ ("CurrentTemperature" \in Exposed /\ Within(last.input["celsius"], 0, 100)) =>
         current["CurrentTemperature"] = last.input["celsius"]
    /\ last.n = Cardinality(Exposed)
    /\ \A cap \in Exposed : host[cap] = current[cap] /\ context[cap] = current[cap]

\* a device on the radio alone has decoded and published battery 45,
\* humidity 60 and 22 degrees
C29_Witness ==
  /\ HappyScan
  /\ device.connectionType = "BLE"
  /\ last.tr = <<"BLERefreshStatus", "startScan">>
  /\ host["BatteryLevel"] = Num(45)
  /\ host["StatusLowBattery"] = BATTERY_LEVEL_NORMAL
  /\ host["CurrentRelativeHumidity"] = Num(60)
  /\ host["CurrentTemperature"] = Num(22)

\* the last handler run sent at least one value to the host in a publish pass
PassPublished ==
  /\ last.op \in {"ScanStopped", "CloudResponded", "Webhook", "PlatformBLE"}
  /\ last.n > 0

\* C30: what the host shows after a publish pass is one snapshot: every
\* exposed characteristic shows the value the in-memory state holds for it,
\* never some characteristics of the new state next to others of an older one.
C30_NoPartialSnapshot ==
  PassPublished =>
    \A cap \in Exposed : host[cap] = current[cap] /\ context[cap] = current[cap]

\* the last run handled a webhook event for an IO sensor that exposes its
\* humidity and its temperature, and no host update threw
IOWebhookHandled ==
  /\ device.kind = "IOSensor"
  /\ ~device.hide_humidity /\ ~device.hide_temperature
  /\ last.op = "Webhook"
  /\ last.failed = ""

\* C31: after a webhook event for an IO sensor with humidity and temperature
\* exposed, the stored humidity is the event's humidity and the stored
\* temperature the event's temperature converted to the configured unit, and
\* the host has been sent both.
C31_WebhookReachesState ==
  IOWebhookHandled =>
    /\ current["CurrentRelativeHumidity"] = Get(last.input, "humidity")
    /\ current["CurrentTemperature"] =
         convertUnits(Get(last.input, "temperature"), Get(last.input, "scale"), device.convertUnitTo)
    /\ host["CurrentRelativeHumidity"] = current["CurrentRelativeHumidity"]
    /\ host["CurrentTemperature"] = current["CurrentTemperature"]

\* the characteristics that every push event of the device's kind carries
PushCaps ==
  IF device.kind = "Motion" THEN {"MotionDetected"}
  ELSE {"CurrentRelativeHumidity", "CurrentTemperature"}

\* C32: the end of a scan whose service data was captured before a push
\* event was handled leaves in place what was decoded from the push event and
\* published.
C32_NewerNotOverwritten ==
  [][(last'.op = "ScanStopped" /\ last.stale /\ cyc[last'.c].seen) =>
       \A cap \in PushCaps :
         /\ current'[cap] = current[cap]
         /\ host'[cap] = host[cap]
         /\ context'[cap] = context[cap]]_vars

\* the last run was the offline fallback of a device marked offline
FellBack == Refreshed /\ last.end = "offlineOff" /\ device.offline

\* the last run was the error handling of a failed cloud fetch
ErrorHandled == last.op = "CloudThrew"

C34_GateBlocksAll ==
  /\ [](CloudServiceGate =>
          /\ NoTransportContacted
          /\ \A cap \in DOMAIN host : host[cap] = Undef /\ context[cap] = Undef
          /\ current = InitialValues(device)
          /\ Refreshed => last.end = "gate" /\ ErrorLogged(last.end) /\ last.n = 0)
  /\ []((device.connectionType = "BLE" /\ last.op = "constructor") =>
          last.tr = <<"BLERefreshStatus">> /\ last.end = "")
  /\ [][(device.connectionType = "BLE" /\ last'.op = "Tick") =>
          last'.tr = <<"BLERefreshStatus">> /\ last'.end = ""]_vars

\* an interval refresh of a device with the radio and the cloud in its
\* connection type, enableCloudService off, has ended at the first test
C34_Witness ==
  /\ last.op = "Tick"
  /\ last.end = "gate"
  /\ device.connectionType = "BLE/OpenAPI"
  /\ ~device.enableCloudService
  /\ InFlight = {}

\* C35: retryBLE({max, fn}) invokes fn at most max + 1 times; it returns as
\* soon as an invocation succeeds and invokes fn no more; when max + 1
\* invocations have failed it has rethrown the error of the last one; it
\* gives up a rejected fn only then; every retry lowers the counter by one,
\* which stays at or above 0.
C35_BoundedRetry ==
  /\ [](/\ retry.calls <= retry.max + 1
        /\ retry.left >= 0
        /\ retry.pc # "idle" => retry.left + retry.calls = retry.max + 1
        /\ retry.pc = "returned" => Len(retry.errs) = retry.calls - 1
        /\ Len(retry.errs) = retry.max + 1 =>
             retry.pc = "thrown" /\ retry.thrown = retry.errs[retry.max + 1]
        /\ retry.pc = "thrown" =>
             /\ Len(retry.errs) = retry.calls
             /\ retry.thrown = retry.errs[retry.calls]
             /\ retry.sync \/ retry.calls = retry.max + 1)
  /\ [][/\ retry.pc \in {"returned", "thrown"} => retry'.calls = 1 /\ retry'.errs = <<>>
        /\ (retry.pc = "sleep" /\ retry'.pc = "fn") =>
             /\ retry'.left = retry.left - 1
             /\ retry'.calls = retry.calls + 1
             /\ retry'.max = retry.max]_vars

\* retryBLE with max 2 has retried twice and the third invocation succeeded
C35_Witness ==
  /\ retry.pc = "returned"
  /\ retry.max = 2
  /\ retry.calls = 3
  /\ retry.left = 0
  /\ Len(retry.errs) = 2

\* C36: the busy flag (ioSensorUpdateInProgress, motionUbpdateInProgress) is
\* true exactly while a refresh cycle is in flight.
C36_BusyFlagTracksCycle == updateInProgress <=> InFlight # {}

\* the light level the payload of the last decode reported
ReportedLight ==
  IF last.end = "decoded" THEN Get(last.input, "lightLevel") ELSE Get(last.input, "brightness")

\* C37: after a radio or cloud decode of the motion sensor, the stored
\* CurrentAmbientLightLevel is set_maxLux when the payload reports 'bright' and
\* set_minLux otherwise, hence within [set_minLux, set_maxLux].
C37_LuxWithinRange ==
  LET set_minLux == Coalesce(device.set_minLux, Num(DefaultMinLux)).n
      set_maxLux == Coalesce(device.set_maxLux, Num(DefaultMaxLux)).n
      lux == current["CurrentAmbientLightLevel"]
  IN (/\ device.kind = "Motion"
      /\ last.end \in {"decoded", "cloudDecoded"}
      /\ ~device.hide_lightsensor /\ HasLightSensor(device)) =>
       /\ lux = Num(IF ReportedLight = Str("bright") THEN set_maxLux ELSE set_minLux)
       /\ set_minLux <= lux.n /\ lux.n <= set_maxLux

\* C38: the scanDuration used for radio scans is the largest of the configured
\* scanDuration (1 when unset), the device's update rate and 1; it is never
\* below 1 second and never below the update rate.
C38_EffectiveScanDuration ==
  LET configured == IF rates.scanDuration = Undef THEN 1 ELSE rates.scanDuration.n
      rate == IF rates.updateRate # Undef THEN rates.updateRate.n
              ELSE IF rates.platformUpdateRate # Undef THEN rates.platformUpdateRate.n
              ELSE DefaultUpdateRate
  IN rates.called =>
       /\ rates.used \in {configured, rate, 1}
       /\ rates.used >= configured /\ rates.used >= rate /\ rates.used >= 1

\* a configured scanDuration of 2 seconds has been raised to the default update
\* rate
C38_Witness ==
  /\ rates.called
  /\ rates.scanDuration = Num(2)
  /\ rates.updateRate = Undef /\ rates.platformUpdateRate = Undef
  /\ rates.used = DefaultUpdateRate

====
